---- MODULE Spec2Model ----
(***************************************************************************)
(* pdf-sketches: the Box value type (box.py) and the two annotators        *)
(* render_boxes_as_image / render_boxes_as_svg (render.py).                *)
(*                                                                         *)
(* Numbers.  Python floats are modelled as exact rationals <<n, d>> with   *)
(* d > 0 in lowest terms, so +, -, *, / are exact and a position that the  *)
(* two render paths compute by different expressions can be compared.      *)
(* Absent values (None, an empty cache slot) are the empty sequence <<>>,  *)
(* a present value v is <<v>>.                                             *)
(***************************************************************************)
EXTENDS Integers, Sequences, FiniteSets, TLC

VARIABLES a, b, cache, ret, args, env, img, svg

boxVars == <<a, b, cache, ret>>

rendVars == <<args, env, img, svg>>

vars == <<a, b, cache, ret, args, env, img, svg>>

(***************************************************************************)
(* Bounds of the model.                                                    *)
(***************************************************************************)
MaxCoord == 2

MaxTol == 1

MaxBoxes == 2

MaxList == 3

MaxScaleNum == 3

ScaleDen == 2

(***************************************************************************)
(* Exact rational arithmetic standing for float arithmetic.                *)
(***************************************************************************)
Abs(n) == IF n < 0 THEN -n ELSE n

RECURSIVE GCD(_, _)
GCD(m, n) == IF n = 0 THEN m ELSE GCD(n, m % n)

Norm(n, d) ==
    LET g == GCD(Abs(n), d) IN <<n \div g, d \div g>>

R(n) == <<n, 1>>

RAdd(p, q) == Norm(p[1] * q[2] + q[1] * p[2], p[2] * q[2])

RSub(p, q) == Norm(p[1] * q[2] - q[1] * p[2], p[2] * q[2])

RMul(p, q) == Norm(p[1] * q[1], p[2] * q[2])

RDiv(p, q) ==
    IF q[1] > 0 THEN Norm(p[1] * q[2], p[2] * q[1])
    ELSE Norm(-(p[1] * q[2]), p[2] * (-q[1]))

RLt(p, q) == p[1] * q[2] < q[1] * p[2]

RLe(p, q) == p[1] * q[2] <= q[1] * p[2]

(***************************************************************************)
(* box.py: Box, a frozen dataclass of four floats, origin bottom-left.     *)
(***************************************************************************)
Box(x1, y1, x2, y2) == [x1 |-> x1, y1 |-> y1, x2 |-> x2, y2 |-> y2]

center(self) ==
    <<RDiv(RAdd(self.x1, self.x2), R(2)), RDiv(RAdd(self.y1, self.y2), R(2))>>

as_tuple(self) == <<self.x1, self.y1, self.x2, self.y2>>

\* Mutant: the operands of the subtraction exchanged.
width_reversed(self) == RSub(self.x1, self.x2)

width(self) == RSub(self.x2, self.x1)

height(self) == RSub(self.y2, self.y1)

\* Mutant: measured from this box's left side.
hdist_from_left(self, other) == RSub(other.x1, self.x1)

hdist(self, other) == RSub(other.x1, self.x2)

vdist(self, other) == RSub(self.y1, other.y2)

\* Mutant: the tolerance added, as precedes_y does.
precedes_x_tol_added(self, other, tol) == RLt(self.x2, RAdd(other.x1, tol))

\* Mutant: non-strict comparison.
precedes_x_non_strict(self, other, tol) == RLe(self.x2, RSub(other.x1, tol))

precedes_x(self, other, tol) == RLt(self.x2, RSub(other.x1, tol))

\* Mutant: the x-direction rule copied to y without the origin flip.
precedes_y_unflipped(self, other, tol) == RLt(self.y2, RSub(other.y1, tol))

precedes_y(self, other, tol) == RLt(RAdd(other.y2, tol), self.y1)

(***************************************************************************)
(* functools.cached_property as used by Box: the first access computes the *)
(* value from the instance and stores it in the instance dictionary under  *)
(* the property's name; later accesses return the stored value.  Each      *)
(* lookup yields the value and the dictionary after the access.            *)
(***************************************************************************)
EmptyCache == [center |-> <<>>, width |-> <<>>, height |-> <<>>, size |-> <<>>]

get_center(self, c) ==
    IF c.center = <<>>
    THEN [v |-> center(self), c |-> [c EXCEPT !.center = <<center(self)>>]]
    ELSE [v |-> c.center[1], c |-> c]

get_width(self, c) ==
    IF c.width = <<>>
    THEN [v |-> width(self), c |-> [c EXCEPT !.width = <<width(self)>>]]
    ELSE [v |-> c.width[1], c |-> c]

get_height(self, c) ==
    IF c.height = <<>>
    THEN [v |-> height(self), c |-> [c EXCEPT !.height = <<height(self)>>]]
    ELSE [v |-> c.height[1], c |-> c]

\* size reads self.width, then self.height, each through its own cache slot.
size(self, c) ==
    LET w == get_width(self, c)
        h == get_height(self, w.c)
    IN  [v |-> <<w.v, h.v>>, c |-> h.c]

get_size(self, c) ==
    IF c.size = <<>>
    THEN LET s == size(self, c)
         IN  [v |-> s.v, c |-> [s.c EXCEPT !.size = <<s.v>>]]
    ELSE [v |-> c.size[1], c |-> c]

to_xywh(self, c) ==
    LET w == get_width(self, c)
        h == get_height(self, w.c)
    IN  [v |-> <<self.x1, self.y1, w.v, h.v>>, c |-> h.c]

RECURSIVE MapMul(_, _)
MapMul(t, factor) ==
    IF t = <<>> THEN <<>>
    ELSE <<RMul(Head(t), factor)>> \o MapMul(Tail(t), factor)

scale_coords(self, factor) == MapMul(as_tuple(self), factor)

(***************************************************************************)
(* Inputs of the Box machine.                                              *)
(***************************************************************************)
Coords == {R(n) : n \in 0..MaxCoord}

Boxes == {Box(x1, y1, x2, y2) : x1 \in Coords, y1 \in Coords,
                                x2 \in Coords, y2 \in Coords}

Tols == {R(n) : n \in (-MaxTol)..MaxTol}

Factors == {R(2), <<1, 2>>}

\* Fixtures named by the documentation of the relations.
FixHdistA == Box(R(0), R(0), R(2), R(2))

FixHdistB == Box(R(5), R(0), R(7), R(2))

FixAbove == Box(R(0), R(10), R(1), R(20))

FixBelow == Box(R(0), R(0), R(1), R(5))

NoCall == [op |-> "none", tol |-> R(0), val |-> <<>>]

Called(op, tol, val) == [op |-> op, tol |-> tol, val |-> val]

(***************************************************************************)
(* One action per Box operation.  a is the receiver, b the other box.      *)
(***************************************************************************)
AccessCenter ==
    LET r == get_center(a, cache)
    IN  /\ cache' = r.c
        /\ ret' = Called("center", R(0), r.v)
        /\ UNCHANGED <<a, b, rendVars>>

AccessWidth ==
    LET r == get_width(a, cache)
    IN  /\ cache' = r.c
        /\ ret' = Called("width", R(0), r.v)
        /\ UNCHANGED <<a, b, rendVars>>

AccessHeight ==
    LET r == get_height(a, cache)
    IN  /\ cache' = r.c
        /\ ret' = Called("height", R(0), r.v)
        /\ UNCHANGED <<a, b, rendVars>>

AccessSize ==
    LET r == get_size(a, cache)
    IN  /\ cache' = r.c
        /\ ret' = Called("size", R(0), r.v)
        /\ UNCHANGED <<a, b, rendVars>>

CallAsTuple ==
    /\ ret' = Called("as_tuple", R(0), as_tuple(a))
    /\ UNCHANGED <<a, b, cache, rendVars>>

CallToXywh ==
    LET r == to_xywh(a, cache)
    IN  /\ cache' = r.c
        /\ ret' = Called("to_xywh", R(0), r.v)
        /\ UNCHANGED <<a, b, rendVars>>

CallScaleCoords ==
    \E f \in Factors :
        /\ ret' = Called("scale_coords", f, scale_coords(a, f))
        /\ UNCHANGED <<a, b, cache, rendVars>>

CallHdist ==
    /\ ret' = Called("hdist", R(0), hdist(a, b))
    /\ UNCHANGED <<a, b, cache, rendVars>>

CallVdist ==
    /\ ret' = Called("vdist", R(0), vdist(a, b))
    /\ UNCHANGED <<a, b, cache, rendVars>>

CallPrecedesX ==
    \E tol \in Tols :
        /\ ret' = Called("precedes_x", tol, precedes_x(a, b, tol))
        /\ UNCHANGED <<a, b, cache, rendVars>>

CallPrecedesY ==
    \E tol \in Tols :
        /\ ret' = Called("precedes_y", tol, precedes_y(a, b, tol))
        /\ UNCHANGED <<a, b, cache, rendVars>>

(***************************************************************************)
(* render.py: helpers.                                                     *)
(***************************************************************************)
_scale_coords(coordinates, factor) == MapMul(coordinates, factor)

_invert_coords(coordinates, h) == <<coordinates[1], RSub(h, coordinates[2])>>

\* round(rgba[3] / 255, 3): the nearest multiple of 1/1000 (a / 255 is never
\* half way between two of them).
_alpha_to_percent(rgba) ==
    <<rgba[1], rgba[2], rgba[3],
      Norm((2000 * rgba[4] + 255) \div 510, 1000)>>

DEFAULT_BOX_COLOR == <<255, 111, 97, 64>>

DEFAULT_LABEL_BG_COLOR == <<245, 223, 77, 196>>

DEFAULT_LABEL_TEXT_COLOR == <<102, 103, 171, 255>>

FontPrefs == <<"Menlo", "Monaco", "Consolas", "Ubuntu Mono", "Courier New">>

\* itertools.repeat(x, n) made a list.
Repeat(x, n) == [i \in 1..n |-> x]

\* zip(s, t): pairs up to the shorter of the two.
Min(m, n) == IF m < n THEN m ELSE n

Zip(s, t) == [i \in 1..Min(Len(s), Len(t)) |-> <<s[i], t[i]>>]

\* str(i) for the indices a box list can have.
Digits == <<"0", "1", "2", "3", "4", "5", "6", "7", "8", "9">>

Str(i) == Digits[i + 1]

\* int(x) of a non-negative float.
int(p) == p[1] \div p[2]

Ceil(p) == -((-p[1]) \div p[2])

\* box_colors: None -> the default for every box, one RGBA tuple -> that
\* tuple for every box, a list -> the list as given.
resolve_colors(box_colors, boxes) ==
    IF box_colors.kind = "none" THEN Repeat(DEFAULT_BOX_COLOR, Len(boxes))
    ELSE IF box_colors.kind = "tuple" THEN Repeat(box_colors.val[1], Len(boxes))
    ELSE box_colors.val

\* box_labels: None -> str(i) of the zero-based index, a list -> as given.
resolve_labels(box_labels, boxes) ==
    IF box_labels.kind = "none" THEN [i \in 1..Len(boxes) |-> Str(i - 1)]
    ELSE box_labels.val

(***************************************************************************)
(* The collaborators.  page.get_size() is the float pair (w, h).           *)
(* page.render_topil(scale) is a raster: its size is a pair of whole       *)
(* numbers of pixels, w*scale and h*scale rounded by the backend (which    *)
(* way is the backend's business: env.rounding).  ImageFont.truetype(name) *)
(* raises OSError unless the font is installed (env.installed).            *)
(* textbbox((0, 0), label, font) is the extent env.textbbox.  Drawing      *)
(* primitives record the coordinates they are handed.                      *)
(***************************************************************************)
Pixels(p, rounding) == IF rounding = "ceil" THEN Ceil(p) ELSE int(p)

render_topil(page, scale, rounding) ==
    <<Pixels(RMul(page[1], scale), rounding),
      Pixels(RMul(page[2], scale), rounding)>>

\* Image.transpose(FLIP_TOP_BOTTOM) of a canvas H pixels high: what was drawn
\* between y0 and y1 lies between H - y1 and H - y0 afterwards.
FlipShape(shape, H) ==
    [shape EXCEPT !.bbox = <<shape.bbox[1], RSub(R(H), shape.bbox[4]),
                              shape.bbox[3], RSub(R(H), shape.bbox[2])>>]

FLIP_TOP_BOTTOM(shapes, H) == [i \in 1..Len(shapes) |-> FlipShape(shapes[i], H)]

(***************************************************************************)
(* render_boxes_as_image, statement by statement.                          *)
(***************************************************************************)
ImgStart ==
    [pc |-> "start", box_colors |-> <<>>, box_labels |-> <<>>,
     font_name |-> <<>>, probe |-> 0, size |-> <<>>, upright |-> TRUE,
     shapes |-> <<>>, layer |-> <<>>, texts |-> <<>>, err |-> "", ret |-> <<>>]

\* Lines 86-95: defaults of colours and labels.
ImgDefaults ==
    /\ img.pc = "start"
    /\ img' = [img EXCEPT !.pc = "font",
                          !.box_colors = resolve_colors(args.box_colors, args.boxes),
                          !.box_labels = resolve_labels(args.box_labels, args.boxes),
                          !.font_name = args.font_name]
    /\ UNCHANGED <<args, env, svg, boxVars>>

\* Lines 96-97: a font probe is needed only when font_name is None.
ImgFont ==
    /\ img.pc = "font"
    /\ \/ /\ img.font_name = <<>>
          /\ img' = [img EXCEPT !.pc = "probe", !.probe = 1]
       \/ /\ img.font_name # <<>>
          /\ img' = [img EXCEPT !.pc = "raster"]
    /\ UNCHANGED <<args, env, svg, boxVars>>

\* _get_system_font, one turn of the loop over the preference list: the
\* first name that loads is taken, a name that raises OSError is skipped.
ImgProbe ==
    /\ img.pc = "probe"
    /\ img.probe <= Len(FontPrefs)
    /\ \/ /\ FontPrefs[img.probe] \in env.installed
          /\ img' = [img EXCEPT !.pc = "raster",
                                !.font_name = <<FontPrefs[img.probe]>>]
       \/ /\ FontPrefs[img.probe] \notin env.installed
          /\ img' = [img EXCEPT !.probe = img.probe + 1]
    /\ UNCHANGED <<args, env, svg, boxVars>>

\* Mutant: with the list exhausted, rendering goes on with a fallback font.
ImgProbeFallback ==
    /\ img.pc = "probe"
    /\ img.probe > Len(FontPrefs)
    /\ img' = [img EXCEPT !.pc = "raster", !.font_name = <<"Arial">>]
    /\ UNCHANGED <<args, env, svg, boxVars>>

\* _get_system_font, lines 70-71: the list is exhausted, font is still None.
ImgProbeFail ==
    /\ img.pc = "probe"
    /\ img.probe > Len(FontPrefs)
    /\ img' = [img EXCEPT !.pc = "raised", !.err = "RuntimeError"]
    /\ UNCHANGED <<args, env, svg, boxVars>>

\* Lines 99-112: the page is rasterized and flipped at once; the text layer
\* is a transparent image of the canvas's size that is never flipped.
ImgRasterize ==
    /\ img.pc = "raster"
    /\ LET image == render_topil(args.page, args.scale, env.rounding)
       IN  img' = [img EXCEPT !.pc = "loadfont", !.size = image,
                              !.upright = FALSE, !.layer = image]
    /\ UNCHANGED <<args, env, svg, boxVars>>

\* Line 114: ImageFont.truetype(font_name, int(6 * scale)).
ImgLoadFont ==
    /\ img.pc = "loadfont"
    /\ \/ /\ img.font_name[1] \in env.installed
          /\ img' = [img EXCEPT !.pc = "rects"]
       \/ /\ img.font_name[1] \notin env.installed
          /\ img' = [img EXCEPT !.pc = "raised", !.err = "OSError"]
    /\ UNCHANGED <<args, env, svg, boxVars>>

image_rect(pair, scale) ==
    [kind |-> "rect", bbox |-> scale_coords(pair[1], scale), fill |-> pair[2]]

\* Lines 116-117: one rectangle per (box, colour) pair, on the flipped canvas.
ImgRects ==
    /\ img.pc = "rects"
    /\ LET pairs == Zip(args.boxes, img.box_colors)
       IN  img' = [img EXCEPT
                     !.pc = "labels",
                     !.shapes = img.shapes \o
                        [i \in 1..Len(pairs) |-> image_rect(pairs[i], args.scale)]]
    /\ UNCHANGED <<args, env, svg, boxVars>>

\* Lines 121-135: the ellipse behind a label, on the flipped canvas.
image_ellipse(c, scale, extent) ==
    LET sc == _scale_coords(c, scale)
        dx == RDiv(extent[1], <<3, 2>>)
        dy == RDiv(extent[2], <<3, 2>>)
    IN  [kind |-> "ellipse",
         bbox |-> <<RSub(sc[1], dx), RSub(sc[2], dy),
                    RAdd(sc[1], dx), RAdd(sc[2], dy)>>,
         fill |-> DEFAULT_LABEL_BG_COLOR]

\* Lines 138-145: the label, anchored by its middle on the unflipped layer.
image_text(label, c, scale, h) ==
    LET sc == _scale_coords(c, scale)
    IN  [xy |-> _invert_coords(<<sc[1], sc[2]>>, RMul(h, scale)),
         text |-> label, size |-> int(RMul(R(6), scale)),
         fill |-> DEFAULT_LABEL_TEXT_COLOR, anchor |-> "mm"]

\* Lines 119-145: one ellipse and one text per (label, centre) pair.
ImgLabels ==
    /\ img.pc = "labels"
    /\ LET centers == [i \in 1..Len(args.boxes) |-> center(args.boxes[i])]
           pairs == Zip(img.box_labels, centers)
       IN  img' = [img EXCEPT
                     !.pc = "flip",
                     !.shapes = img.shapes \o
                        [i \in 1..Len(pairs) |->
                            image_ellipse(pairs[i][2], args.scale, env.textbbox)],
                     !.texts =
                        [i \in 1..Len(pairs) |->
                            image_text(pairs[i][1], pairs[i][2], args.scale,
                                       args.page[2])]]
    /\ UNCHANGED <<args, env, svg, boxVars>>

\* Lines 146-148: the canvas is flipped back and the text layer composited
\* over it.
ImgFinish ==
    /\ img.pc = "flip"
    /\ LET shapes == FLIP_TOP_BOTTOM(img.shapes, img.size[2])
       IN  img' = [img EXCEPT
                     !.pc = "done", !.upright = TRUE, !.shapes = shapes,
                     !.ret = <<[size |-> img.size, shapes |-> shapes,
                                layer |-> img.layer, texts |-> img.texts]>>]
    /\ UNCHANGED <<args, env, svg, boxVars>>

(***************************************************************************)
(* render_boxes_as_svg, statement by statement.  The caller renders the    *)
(* raster first and the vector document next, from the same arguments.     *)
(***************************************************************************)
SvgStart ==
    [pc |-> "start", box_colors |-> <<>>, box_labels |-> <<>>,
     label_bg_color |-> <<>>, label_text_color |-> <<>>, size |-> <<>>,
     rects |-> <<>>, circles |-> <<>>, texts |-> <<>>, ret |-> <<>>]

\* Lines 179-190.
SvgDefaults ==
    /\ img.pc \in {"done", "raised"}
    /\ svg.pc = "start"
    /\ svg' = [svg EXCEPT !.pc = "raster",
                          !.box_colors = resolve_colors(args.box_colors, args.boxes),
                          !.box_labels = resolve_labels(args.box_labels, args.boxes),
                          !.label_bg_color = _alpha_to_percent(DEFAULT_LABEL_BG_COLOR),
                          !.label_text_color = _alpha_to_percent(DEFAULT_LABEL_TEXT_COLOR)]
    /\ UNCHANGED <<args, env, img, boxVars>>

\* Lines 192-199: the page is rasterized (not flipped) and encoded.
SvgRasterize ==
    /\ svg.pc = "raster"
    /\ svg' = [svg EXCEPT !.pc = "rects",
                          !.size = render_topil(args.page, args.scale, env.rounding)]
    /\ UNCHANGED <<args, env, img, boxVars>>

\* Mutant: the vertical position inverted without subtracting the height.
svg_rect_lower_edge(pair, scale, h) ==
    LET xywh == _scale_coords(to_xywh(pair[1], EmptyCache).v, scale)
        by == RSub(RMul(scale, h), xywh[2])
    IN  [x |-> xywh[1], y |-> by, width |-> xywh[3], height |-> xywh[4],
         fill |-> _alpha_to_percent(pair[2])]

\* Lines 203-214: the rect element of one (box, colour) pair on a page h high.
svg_rect(pair, scale, h) ==
    LET xywh == _scale_coords(to_xywh(pair[1], EmptyCache).v, scale)
        by == RSub(RMul(scale, h), RAdd(xywh[2], xywh[4]))
    IN  [x |-> xywh[1], y |-> by, width |-> xywh[3], height |-> xywh[4],
         fill |-> _alpha_to_percent(pair[2])]

\* Lines 201-215.
SvgRects ==
    /\ svg.pc = "rects"
    /\ LET pairs == Zip(args.boxes, svg.box_colors)
       IN  svg' = [svg EXCEPT
                     !.pc = "labels",
                     !.rects = [i \in 1..Len(pairs) |->
                                  svg_rect(pairs[i], args.scale, args.page[2])]]
    /\ UNCHANGED <<args, env, img, boxVars>>

\* Lines 221-222: the centre of a label's circle and text.
svg_center(c, scale, h) == _invert_coords(_scale_coords(c, scale), RMul(scale, h))

\* Lines 217-247.
SvgLabels ==
    /\ svg.pc = "labels"
    /\ LET centers == [i \in 1..Len(args.boxes) |-> center(args.boxes[i])]
           pairs == Zip(svg.box_labels, centers)
           at(i) == svg_center(pairs[i][2], args.scale, args.page[2])
       IN  svg' = [svg EXCEPT
                     !.pc = "format",
                     !.circles = [i \in 1..Len(pairs) |->
                                    [cx |-> at(i)[1], cy |-> at(i)[2],
                                     r |-> RMul(R(4), args.scale),
                                     fill |-> svg.label_bg_color]],
                     !.texts = [i \in 1..Len(pairs) |->
                                  [x |-> at(i)[1], y |-> at(i)[2],
                                   font_size |-> RMul(R(6), args.scale),
                                   fill |-> svg.label_text_color,
                                   shadow |-> svg.label_bg_color,
                                   text |-> pairs[i][1]]]]
    /\ UNCHANGED <<args, env, img, boxVars>>

\* Lines 248-261: the template is filled in and the document returned.
SvgFormat ==
    /\ svg.pc = "format"
    /\ svg' = [svg EXCEPT
                 !.pc = "done",
                 !.ret = <<[width |-> RMul(args.page[1], args.scale),
                            height |-> RMul(args.page[2], args.scale),
                            image |-> svg.size,
                            rects |-> svg.rects,
                            circles |-> svg.circles,
                            texts |-> svg.texts]>>]
    /\ UNCHANGED <<args, env, img, boxVars>>

NextRender ==
    \/ ImgDefaults
    \/ ImgFont
    \/ ImgProbe
    \/ ImgProbeFail
    \/ ImgRasterize
    \/ ImgLoadFont
    \/ ImgRects
    \/ ImgLabels
    \/ ImgFinish
    \/ SvgDefaults
    \/ SvgRasterize
    \/ SvgRects
    \/ SvgLabels
    \/ SvgFormat

(***************************************************************************)
(* Inputs of the render machine.                                           *)
(***************************************************************************)
None == [kind |-> "none", val |-> <<>>]

Scales == {Norm(k, ScaleDen) : k \in 1..MaxScaleNum}

Pages == {<<R(MaxCoord + 1), R(MaxCoord + 2)>>,
          <<R(MaxCoord + 2), R(MaxCoord + 1)>>}

\* A row of n boxes: the first one and copies of it moved right by 1, 2, ...
Moved(box, k) == [box EXCEPT !.x1 = RAdd(box.x1, R(k)), !.x2 = RAdd(box.x2, R(k))]

Row(box, n) == [i \in 1..n |-> Moved(box, i - 1)]

UnitBox == Box(R(0), R(0), R(1), R(1))

Palette(i) == <<10 * i, 20, 30, 51 * i>>

LabelPool == <<"a", "b", "c", "d", "e", "f", "g", "h">>

ColorOptions ==
    {None, [kind |-> "tuple", val |-> <<Palette(5)>>]}
    \cup {[kind |-> "list", val |-> [i \in 1..n |-> Palette(i)]] : n \in 0..MaxList}

LabelOptions ==
    {None} \cup {[kind |-> "list", val |-> SubSeq(LabelPool, 1, n)] : n \in 0..MaxList}

TextExtents == {<<R(3), R(4)>>, <<R(7), R(5)>>}

\* The end-to-end fixture: one box (10,10,50,30) on a 100x100 page, scale 1.
FixPage == <<R(100), R(100)>>

FixBox == Box(R(10), R(10), R(50), R(30))

Args(page, boxes, scale, font_name, box_colors, box_labels) ==
    [page |-> page, boxes |-> boxes, scale |-> scale, font_name |-> font_name,
     box_colors |-> box_colors, box_labels |-> box_labels]

IdleBox ==
    /\ a = UnitBox
    /\ b = UnitBox
    /\ cache = EmptyCache
    /\ ret = NoCall

IdleRender ==
    /\ args = Args(FixPage, <<>>, R(1), <<>>, None, None)
    /\ env = [installed |-> {}, rounding |-> "ceil", textbbox |-> <<R(3), R(4)>>]
    /\ img = ImgStart
    /\ svg = SvgStart

\* SpecGeom: the geometry varies (page, boxes, scale, the backend's rounding),
\* styling is the default.
InitGeom ==
    /\ IdleBox
    /\ \E pbs \in ({<<pg, Row(bx, n), sc>> :
                        pg \in Pages, bx \in Boxes, n \in 1..MaxBoxes, sc \in Scales}
                   \cup {<<FixPage, <<FixBox>>, R(1)>>}),
          fn \in {<<>>, <<"Courier New">>} :
           args = Args(pbs[1], pbs[2], pbs[3], fn, None, None)
    /\ \E inst \in {{}, {"Courier New"}}, rnd \in {"floor", "ceil"} :
           env = [installed |-> inst, rounding |-> rnd, textbbox |-> <<R(3), R(4)>>]
    /\ img = ImgStart
    /\ svg = SvgStart

SpecGeom == InitGeom /\ [][NextRender]_vars

\* SpecStyle: the styling arguments vary (colours and labels unset, single,
\* or lists shorter than, as long as and longer than the box list).
InitStyle ==
    /\ IdleBox
    /\ \E n \in 0..MaxBoxes, bc \in ColorOptions, bl \in LabelOptions,
          fn \in {<<>>, <<"Courier New">>} :
           args = Args(<<R(MaxCoord + 1), R(MaxCoord + 2)>>, Row(UnitBox, n),
                       R(1), fn, bc, bl)
    /\ \E inst \in {{}, {"Courier New"}}, ext \in TextExtents :
           env = [installed |-> inst, rounding |-> "ceil", textbbox |-> ext]
    /\ img = ImgStart
    /\ svg = SvgStart

SpecStyle == InitStyle /\ [][NextRender]_vars

\* SpecFont: the installed fonts and the font argument vary.
FontNames == {FontPrefs[i] : i \in 1..Len(FontPrefs)} \cup {"Arial"}

InitFont ==
    /\ IdleBox
    /\ \E n \in 0..MaxBoxes, fn \in {<<>>, <<"Arial">>, <<"Monaco">>} :
           args = Args(<<R(MaxCoord + 1), R(MaxCoord + 2)>>, Row(UnitBox, n),
                       R(1), fn, None, None)
    /\ \E inst \in SUBSET FontNames :
           env = [installed |-> inst, rounding |-> "ceil", textbbox |-> <<R(3), R(4)>>]
    /\ img = ImgStart
    /\ svg = SvgStart

SpecFont == InitFont /\ [][NextRender]_vars

(***************************************************************************)
(* SpecRel: two arbitrary boxes (degenerate and inverted ones included)    *)
(* and one call of a pairwise relation.                                    *)
(***************************************************************************)
InitRel ==
    /\ \E p \in (Boxes \X Boxes)
                   \cup {<<FixHdistA, FixHdistB>>, <<FixAbove, FixBelow>>,
                         <<FixBelow, FixAbove>>} :
           /\ a = p[1]
           /\ b = p[2]
    /\ cache = EmptyCache
    /\ ret = NoCall
    /\ IdleRender

\* The relations are pure: one call per pair of boxes shows all they do.
NextRel ==
    \/ ret = NoCall /\ CallHdist
    \/ ret = NoCall /\ CallVdist
    \/ ret = NoCall /\ CallPrecedesX
    \/ ret = NoCall /\ CallPrecedesY

SpecRel == InitRel /\ [][NextRel]_vars

(***************************************************************************)
(* SpecCache: one box, any sequence of property accesses and method calls. *)
(***************************************************************************)
CacheOthers == {Box(R(0), R(0), R(MaxCoord), R(MaxCoord)),
                Box(R(MaxCoord), R(MaxCoord), R(0), R(0))}

InitCache ==
    /\ a \in Boxes
    /\ b \in CacheOthers
    /\ cache = EmptyCache
    /\ ret = NoCall
    /\ IdleRender

NextCache ==
    \/ AccessCenter
    \/ AccessWidth
    \/ AccessHeight
    \/ AccessSize
    \/ CallAsTuple
    \/ CallToXywh
    \/ CallScaleCoords
    \/ CallHdist
    \/ CallVdist
    \/ CallPrecedesX
    \/ CallPrecedesY

SpecCache == InitCache /\ [][NextCache]_vars

(***************************************************************************)
(* Properties of the pairwise relations, checked under SpecRel.            *)
(***************************************************************************)
ValidX(box) == RLe(box.x1, box.x2)

\* The closed x-ranges share at least one point.
XRangesMeet(p, q) == RLe(p.x1, q.x2) /\ RLe(q.x1, p.x2)

\* The ranges share more than an end point.
XOverlap(p, q) == RLt(p.x1, q.x2) /\ RLt(q.x1, p.x2)

YOverlap(p, q) == RLt(p.y1, q.y2) /\ RLt(q.y1, p.y2)

RAbs(p) == <<Abs(p[1]), p[2]>>

NonNeg(tol) == RLe(R(0), tol)

C4_PrecedesYSign ==
    ret.op = "precedes_y" =>
        /\ ret.val <=> (a.y1[1] * b.y2[2] * ret.tol[2]
                          > (b.y2[1] * ret.tol[2] + ret.tol[1] * b.y2[2]) * a.y1[2])
        /\ (a = FixAbove /\ b = FixBelow /\ ret.tol = R(0)) => ret.val
        /\ (a = FixBelow /\ b = FixAbove /\ ret.tol = R(0)) => ~ret.val

C4_Witness ==
    /\ ret.op = "precedes_y"
    /\ a = FixAbove /\ b = FixBelow
    /\ ret.tol = R(0)
    /\ ret.val

WithinTol(p, q, tol) == RLe(RAbs(RSub(p.x2, q.x1)), tol)

\* C5 as stated: for a fixed tol >= 0 precedes_x is a strict ordering over ALL
\* boxes: irreflexive, transitive, and two boxes whose tested edges (A.x2 and
\* B.x1) are within tol of each other are related in neither direction.
C5_StrictOrderAllBoxes ==
    (ret.op = "precedes_x" /\ NonNeg(ret.tol)) =>
        /\ ~precedes_x(a, a, ret.tol)
        /\ ret.val =>
              \A c \in Boxes :
                  precedes_x(b, c, ret.tol) => precedes_x(a, c, ret.tol)
        /\ WithinTol(a, b, ret.tol) =>
              (~ret.val /\ ~precedes_x(b, a, ret.tol))

\* C5 amended: for a fixed tol >= 0 precedes_x is a strict ordering over the
\* boxes with x1 <= x2: irreflexive, transitive, and two such boxes whose
\* tested edges are within tol of each other are related in neither direction.
C5_StrictOrderValidBoxes ==
    (ret.op = "precedes_x" /\ NonNeg(ret.tol) /\ ValidX(a) /\ ValidX(b)) =>
        /\ ~precedes_x(a, a, ret.tol)
        /\ ret.val =>
              \A c \in Boxes :
                  (ValidX(c) /\ precedes_x(b, c, ret.tol))
                      => precedes_x(a, c, ret.tol)
        /\ WithinTol(a, b, ret.tol) =>
              (~ret.val /\ ~precedes_x(b, a, ret.tol))

C5_Witness ==
    /\ ret.op = "precedes_x"
    /\ NonNeg(ret.tol)
    /\ ValidX(a) /\ ValidX(b)
    /\ ret.val
    /\ \E c \in Boxes : ValidX(c) /\ precedes_x(b, c, ret.tol)

Twice(p) == RAdd(p, p)

C8_Values ==
    /\ ret.op = "width" => RAdd(ret.val, a.x1) = a.x2
    /\ ret.op = "height" => RAdd(ret.val, a.y1) = a.y2
    /\ ret.op = "size" =>
          /\ RAdd(ret.val[1], a.x1) = a.x2
          /\ RAdd(ret.val[2], a.y1) = a.y2
    /\ ret.op = "center" =>
          /\ Twice(ret.val[1]) = RAdd(a.x1, a.x2)
          /\ Twice(ret.val[2]) = RAdd(a.y1, a.y2)
    /\ ret.op = "to_xywh" =>
          /\ ret.val[1] = a.x1 /\ ret.val[2] = a.y1
          /\ RAdd(ret.val[3], a.x1) = a.x2
          /\ RAdd(ret.val[4], a.y1) = a.y2
    /\ cache.width # <<>> => RAdd(cache.width[1], a.x1) = a.x2
    /\ cache.height # <<>> => RAdd(cache.height[1], a.y1) = a.y2
    /\ cache.size # <<>> =>
          /\ RAdd(cache.size[1][1], a.x1) = a.x2
          /\ RAdd(cache.size[1][2], a.y1) = a.y2
    /\ cache.center # <<>> =>
          /\ Twice(cache.center[1][1]) = RAdd(a.x1, a.x2)
          /\ Twice(cache.center[1][2]) = RAdd(a.y1, a.y2)

\* C8: over any sequence of accesses to center, width, height, size and calls
\* of as_tuple, to_xywh, scale_coords, hdist, vdist, precedes_*, every access
\* returns width = x2-x1, height = y2-y1, size = (width, height), center =
\* ((x1+x2)/2, (y1+y2)/2), on the first access and on every later one (the
\* memoized value is that value too), and x1, y1, x2, y2 never change.
C8_StableAttributes == [](C8_Values) /\ [][a' = a]_vars

C8_Witness ==
    /\ ret.op = "width"
    /\ cache.size # <<>>
    /\ cache.center # <<>>
    /\ RLt(a.x2, a.x1)
    /\ RLt(a.y1, a.y2)

(***************************************************************************)
(* Properties of the two render paths.                                     *)
(***************************************************************************)
IsRect(shape) == shape.kind = "rect"

IsEllipse(shape) == shape.kind = "ellipse"

Mid(p, q) == RDiv(RAdd(p, q), R(2))

N == Len(args.boxes)

\* C1: for the same page, boxes and scale the two paths put every box at the
\* same top-left-origin position: the raster rectangle, once the canvas is
\* flipped back, has the left, right, top and bottom edges of the SVG rect
\* (x, x + width, y, y + height), and the raster text anchor is the SVG
\* circle centre and text position.
C1_PathsAgree ==
    (img.pc = "done" /\ svg.pc = "done") =>
        LET im == img.ret[1]
            doc == svg.ret[1]
            rects == SelectSeq(im.shapes, IsRect)
        IN  /\ Len(rects) = N /\ Len(doc.rects) = N
            /\ Len(im.texts) = N /\ Len(doc.circles) = N /\ Len(doc.texts) = N
            /\ \A i \in 1..N :
                  /\ rects[i].bbox[1] = doc.rects[i].x
                  /\ rects[i].bbox[3] = RAdd(doc.rects[i].x, doc.rects[i].width)
                  /\ rects[i].bbox[2] = doc.rects[i].y
                  /\ rects[i].bbox[4] = RAdd(doc.rects[i].y, doc.rects[i].height)
                  /\ im.texts[i].xy = <<doc.circles[i].cx, doc.circles[i].cy>>
                  /\ im.texts[i].xy = <<doc.texts[i].x, doc.texts[i].y>>

\* The two paths do agree whenever the canvas is exactly h*scale high, that
\* is whenever h*scale is a whole number of pixels.
WholePage == img.size # <<>> /\ R(img.size[2]) = RMul(args.page[2], args.scale)

C1_PathsAgreeOnWholePages == WholePage => C1_PathsAgree

\* C2: in render_boxes_as_svg every rect has x = x1*scale, width =
\* (x2-x1)*scale, height = (y2-y1)*scale and y = scale*h - (y1*scale +
\* (y2-y1)*scale); the declared size is (w*scale, h*scale); one box
\* (10,10,50,30) on a 100x100 page at scale 1 gives size 100x100 and a rect
\* with y = 70 and height 20.
C2_SvgRectGeometry ==
    svg.pc = "done" =>
        LET doc == svg.ret[1]
            s == args.scale
            w == args.page[1]
            h == args.page[2]
        IN  /\ doc.width = RMul(w, s)
            /\ doc.height = RMul(h, s)
            /\ Len(doc.rects) = N
            /\ \A i \in 1..N :
                  LET bx == args.boxes[i]
                      r == doc.rects[i]
                  IN  /\ r.x = RMul(bx.x1, s)
                      /\ r.width = RMul(RSub(bx.x2, bx.x1), s)
                      /\ r.height = RMul(RSub(bx.y2, bx.y1), s)
                      /\ r.y = RSub(RMul(s, h),
                                    RAdd(RMul(bx.y1, s),
                                         RMul(RSub(bx.y2, bx.y1), s)))
            /\ (args.page = FixPage /\ args.boxes = <<FixBox>> /\ s = R(1)) =>
                  /\ doc.width = R(100) /\ doc.height = R(100)
                  /\ doc.rects[1].y = R(70)
                  /\ doc.rects[1].height = R(20)

C2_Witness ==
    /\ svg.pc = "done"
    /\ args.page = FixPage /\ args.boxes = <<FixBox>> /\ args.scale = R(1)
    /\ svg.ret[1].rects[1].y = R(70)

HasLabels(labels) ==
    /\ Len(labels) = N
    /\ \A i \in 1..N :
          labels[i] = (IF args.box_labels.kind = "none" THEN Str(i - 1)
                       ELSE args.box_labels.val[i])

\* C6: render_boxes_as_svg with N boxes never returns a partial document:
\* for box_colors unset, a single tuple or a list of any length and
\* box_labels unset or a list of any length, a returned document has exactly
\* N rect, N circle and N text elements, the i-th of each belonging to box i,
\* with label i equal to box_labels[i], or str(i) when labels are unset.
C6_SvgNeverPartial ==
    svg.pc = "done" =>
        LET doc == svg.ret[1]
            s == args.scale
        IN  /\ Len(doc.rects) = N
            /\ Len(doc.circles) = N
            /\ Len(doc.texts) = N
            /\ \A i \in 1..N :
                  /\ doc.rects[i].x = RMul(args.boxes[i].x1, s)
                  /\ doc.circles[i].cx = RMul(Mid(args.boxes[i].x1, args.boxes[i].x2), s)
                  /\ doc.texts[i].x = doc.circles[i].cx
            /\ HasLabels([i \in 1..Len(doc.texts) |-> doc.texts[i].text])

NoPrefInstalled == \A i \in 1..Len(FontPrefs) : FontPrefs[i] \notin env.installed

\* C7: with font_name unset, render_boxes_as_image probes Menlo, Monaco,
\* Consolas, Ubuntu Mono, Courier New in that order and uses the first that
\* loads; if none loads it raises RuntimeError before the page is rasterized
\* or anything is drawn, and never goes on with a fallback font.
C7_FontProbeOrder ==
    args.font_name = <<>> =>
        /\ FontPrefs = <<"Menlo", "Monaco", "Consolas", "Ubuntu Mono", "Courier New">>
        /\ img.pc \in {"raster", "loadfont", "rects", "labels", "flip", "done"} =>
              \E i \in 1..Len(FontPrefs) :
                  /\ img.font_name = <<FontPrefs[i]>>
                  /\ FontPrefs[i] \in env.installed
                  /\ \A j \in 1..(i - 1) : FontPrefs[j] \notin env.installed
        /\ img.pc = "raised" =>
              /\ img.err = "RuntimeError"
              /\ NoPrefInstalled
              /\ img.size = <<>> /\ img.layer = <<>>
              /\ img.shapes = <<>> /\ img.texts = <<>>
        /\ NoPrefInstalled =>
              /\ img.pc \in {"start", "font", "probe", "raised"}
              /\ img.ret = <<>>

C7_Witness ==
    /\ args.font_name = <<>>
    /\ img.pc = "raised"
    /\ img.err = "RuntimeError"
    /\ "Arial" \in env.installed

\* C10: in the returned image the label's background ellipse (drawn at the
\* scaled box centre on the flipped canvas, then flipped back) and the label
\* text (anchored at (cx*scale, h*scale - cy*scale) on the unflipped layer)
\* have the same centre, the box centre in top-left-origin raster space; the
\* text layer has the size of the rasterized page.
C10_LabelCentred ==
    img.pc = "done" =>
        LET im == img.ret[1]
            ellipses == SelectSeq(im.shapes, IsEllipse)
            s == args.scale
            h == args.page[2]
        IN  /\ im.layer = im.size
            /\ Len(ellipses) = N /\ Len(im.texts) = N
            /\ \A i \in 1..N :
                  LET c == center(args.boxes[i])
                      e == ellipses[i].bbox
                  IN  /\ im.texts[i].xy = <<RMul(c[1], s),
                                            RSub(RMul(h, s), RMul(c[2], s))>>
                      /\ <<Mid(e[1], e[3]), Mid(e[2], e[4])>> = im.texts[i].xy

C10_LabelCentredOnWholePages == WholePage => C10_LabelCentred

====
